---- MODULE Spec2Model ----
(***************************************************************************)
(* SafeRoute backend: hazard lifecycle and audit trail.                    *)
(*                                                                         *)
(* The store is the relational database behind db.py (tables hazards,      *)
(* audit_logs, authorities and authority_verifications of models.py).      *)
(* Every HTTP request runs in its own                                      *)
(* SQLAlchemy session (db.get_db); FastAPI runs the synchronous handlers   *)
(* on a thread pool, so the SELECT of one request and the COMMIT of        *)
(* another interleave.  A transition handler (verify / reject / resolve)   *)
(* is therefore two steps: the SELECT that loads the hazard, and the rest  *)
(* of the handler (status check, in-memory update, flush and COMMIT).      *)
(* report_hazard and the driver listing issue one statement/transaction    *)
(* and are one step each.                                                  *)
(*                                                                         *)
(* Python values that the handlers compare are kept with their type: a     *)
(* member of the enum HazardStatus and a plain string are different        *)
(* values, and str() is modelled by what Python's str() returns for each.  *)
(***************************************************************************)
EXTENDS Integers, Sequences, FiniteSets, TLC

(* ------------------------------ bounds --------------------------------- *)
MaxHazards == 2
NumWorkers == 2
MaxTime == 1
MaxLimit == 1
MaxClock == 10

Workers == 1..NumWorkers
HazardIdInputs == 1..MaxHazards
AuthorityIds == {1}
Limits == (-1)..MaxLimit

(* ------------------------------ models.py ------------------------------ *)
HazardStatus == {"REPORTED", "PENDING_AUTHORITY", "VERIFIED", "RESOLVED"}

HazardType == {"ACCIDENT", "POTHOLE", "ROADBLOCK"}

(* A Python value held by an ORM attribute: an enum member or a string.    *)
EnumMember(n) == [kind |-> "enum", v |-> n]
PlainStr(s) == [kind |-> "str", v |-> s]

(* HazardStatus.X.value *)
value(n) == n

(* str(x): HazardStatus is declared `class HazardStatus(str, Enum)`; str()  *)
(* of a member is "HazardStatus.<NAME>", str() of a string is the string.   *)
strValue(x) == x.v
str(x) == IF x.kind = "enum" THEN "HazardStatus." \o x.v ELSE x.v

(* Column(SQLEnum(HazardStatus)): the database stores the member's name;    *)
(* a loaded row yields the enum member; a member or a string naming a       *)
(* member is accepted on write.                                             *)
result_processor(dbval) == EnumMember(dbval)
bind_processor(x) == x.v

AuthorityLevel == {"LOCAL", "STATE", "NATIONAL"}

(* Table authorities.  No route creates or changes an authority; the rows   *)
(* are provisioned in the database before the service runs.  Authority 1 is *)
(* a LOCAL agency, authority 2 a NATIONAL one, authority 3 a LOCAL agency   *)
(* whose is_active flag is false.  The columns are those of the model:      *)
(* there is no column holding a password hash.                              *)
SeqAuthorityIds == {1, 2}
InactiveAuthorityId == 3
Email(a) == IF a = 1 THEN "local@agency" ELSE IF a = 2 THEN "national@agency"
            ELSE "closed@agency"
Authority ==
    [a \in SeqAuthorityIds \cup {InactiveAuthorityId} |->
        IF a = 1
          THEN [id |-> a, email |-> Email(a), level |-> "LOCAL",
                jurisdiction |-> "LOCAL", is_active |-> TRUE]
        ELSE IF a = 2
          THEN [id |-> a, email |-> Email(a), level |-> "NATIONAL",
                jurisdiction |-> "NATIONAL", is_active |-> TRUE]
          ELSE [id |-> a, email |-> Email(a), level |-> "LOCAL",
                jurisdiction |-> "LOCAL", is_active |-> FALSE]]

(* ------------------------------ auth.py -------------------------------- *)
(* get_current_verifier(authority): passes when authority.jurisdiction is   *)
(* "STATE" or "LOCAL", raises 403 otherwise.  No route of                   *)
(* authority_routes.py depends on it: verify_hazard, reject_hazard and      *)
(* resolve_hazard depend on get_current_authority.                          *)
get_current_verifier(a) ==
    Authority[a].jurisdiction \in {"STATE", "LOCAL"}

(* ------------------------------ schemas.py ----------------------------- *)
SchemaHazardType == {"ACCIDENT", "POTHOLE", "ROADBLOCK", "DEBRIS", "REPORTED"}

(* request bodies tried by Spec; an age is the age of the observation in    *)
(* hours at the time of the request, -1 is one hour in the future           *)
HazardTypeInputs == {"POTHOLE"}
LatitudeInputs == {40, 91}
LongitudeInputs == {-74}
ObservedAgeInputs == {0, 48}

(* the wider inputs of the sequential specification SpecSeq                 *)
SeqHazardTypeInputs == {"POTHOLE", "DEBRIS", "FLOOD"}
SeqLatitudeInputs == {-91, 90, 91}
SeqLongitudeInputs == {-181, -180, 181}
SeqObservedAgeInputs == {-1, 0, 25, 48}

(* hazard_type: HazardType (the enum of schemas.py)                         *)
hazard_type_ok(t) == t \in SchemaHazardType

(* latitude: float = Field(..., ge=-90, le=90)                              *)
latitude_ok_le91(lat) == lat >= -90 /\ lat <= 91
latitude_ok(lat) == lat >= -90 /\ lat <= 90

(* longitude: float = Field(..., ge=-180, le=180)                           *)
longitude_ok(lon) == lon >= -180 /\ lon <= 180

(* validate_observed_at(cls, v), with age = utcnow() - v in hours;          *)
(* timedelta.days is the whole number of 24-hour days of the difference.    *)
validate_observed_at(age) ==
    /\ ~(age < 0)
    /\ ~((age \div 24) > 1)

(* HazardReportRequest: field constraints and validate_observed_at.         *)
HazardReportRequestValid(t, lat, lon, age) ==
    /\ hazard_type_ok(t)
    /\ latitude_ok(lat)
    /\ longitude_ok(lon)
    /\ validate_observed_at(age)

(* the fields named in the 422 response of a request that fails validation  *)
ValidationErrors(t, lat, lon, age) ==
    {f \in {"hazard_type", "latitude", "longitude", "observed_at"} :
        \/ f = "hazard_type" /\ ~hazard_type_ok(t)
        \/ f = "latitude" /\ ~latitude_ok(lat)
        \/ f = "longitude" /\ ~longitude_ok(lon)
        \/ f = "observed_at" /\ ~validate_observed_at(age)}

(* ------------------------------ state ---------------------------------- *)
VARIABLES
    hazards,      \* table hazards: sequence of rows, row i has primary key i
    audit_logs,   \* table audit_logs: sequence of rows in insertion order
    now,          \* datetime.utcnow(), in hours
    req,          \* per worker thread: the transition request it is serving
                  \*   (.overlapped is history: another request on the same
                  \*   hazard was between its SELECT and its COMMIT meanwhile)
    driver,       \* the last response sent to a driver request
    verifications,\* table authority_verifications: sequence of rows
    redeem,       \* the responses of POST /authority/verify-token, in order
    issue,        \* per worker: the token issue it is serving
    dispatch,     \* hazard ids whose notification task is scheduled, not run
    session,      \* the last session token created, and its last decoding
    portal        \* the last response of an authority GET endpoint

vars == <<hazards, audit_logs, now, req, driver, verifications, redeem,
          issue, dispatch, session, portal>>

NoValue == [kind |-> "none", v |-> ""]
NoRequest == [pc |-> "idle", op |-> "none", hazard_id |-> 0, authority |-> 0,
              loaded |-> NoValue, code |-> 0, status |-> "", verified_at |-> -1,
              overlapped |-> FALSE]
NoDriver == [op |-> "none", code |-> 0, hazard_id |-> 0, limit |-> 0,
             result |-> << >>, body |-> << >>, detail |-> {}]

NoIssue == [pc |-> "idle", hazard_id |-> 0, authority |-> 0, ttl |-> 0,
            code |-> ""]

NoToken == [kind |-> "none"]
NoSession == [token |-> NoToken, issued_at |-> 0, issued_for |-> 0,
              email |-> "", password |-> "", login |-> 0,
              decoded_at |-> 0, code |-> 0, authority_id |-> 0]
NoPortal == [op |-> "none", credentials |-> NoToken, code |-> 0,
             authority |-> 0, hazard_id |-> 0, body |-> << >>]

Init ==
    /\ hazards = << >>
    /\ audit_logs = << >>
    /\ now = 0
    /\ req = [w \in Workers |-> NoRequest]
    /\ driver = NoDriver
    /\ verifications = << >>
    /\ redeem = << >>
    /\ issue = [w \in Workers |-> NoIssue]
    /\ dispatch = {}
    /\ session = NoSession
    /\ portal = NoPortal

(* -------------------------- store helpers ------------------------------ *)
HazardIds == DOMAIN hazards

(* db.query(Hazard).filter(Hazard.id == hazard_id).first() *)
first(hazard_id) == IF hazard_id \in HazardIds THEN hazard_id ELSE 0

AuditOf(h) == SelectSeq(audit_logs, LAMBDA e : e.hazard_id = h)

(* --------------------------- hazards_routes.py ------------------------- *)
(* Hazard(...) row written by report_hazard.  created_at and updated_at    *)
(* take the column default datetime.utcnow; resolved_at stays NULL (-1).    *)
(* id takes the column default str(uuid.uuid4()): a value no earlier row    *)
(* has, here the next unused number.                                        *)
NewHazardStatusReported == EnumMember("REPORTED")
NewHazardStatus == EnumMember("PENDING_AUTHORITY")
NewHazardFixedId(id, t, lat, lon, age) ==
    [id |-> 1, hazard_type |-> t, latitude |-> lat, longitude |-> lon,
     observed_at |-> now - age, status |-> bind_processor(NewHazardStatus),
     created_at |-> now, updated_at |-> now, resolved_at |-> -1]
NewHazard(id, t, lat, lon, age) ==
    [id |-> id, hazard_type |-> t, latitude |-> lat, longitude |-> lon,
     observed_at |-> now - age, status |-> bind_processor(NewHazardStatus),
     created_at |-> now, updated_at |-> now, resolved_at |-> -1]

(* background_tasks.add_task(notify_authorities_of_hazard, hazard_id=...):  *)
(* the task is queued; it runs after the response has been sent.            *)
add_task(tasks, hazard_id) == tasks \cup {hazard_id}

(* db.add(hazard); db.commit(): one INSERT, the stored rows stay as they    *)
(* are.                                                                     *)
db_add_replace(rows, row) == <<row>>
db_add(rows, row) == Append(rows, row)

(* POST /hazards/report.                                                    *)
(* 422: request validation failed, no handler code runs.                    *)
(* 500 "store": the INSERT is refused by the store, nothing is written.     *)
(* 201: the row is committed and its id acknowledged.                       *)
(* 500 "hazard_type": the request's hazard_type is a member of the schema   *)
(* enum that the column's enum (models.HazardType) does not have.  The      *)
(* member is a str, so it is bound as its string and the row is committed   *)
(* (unless the store refuses it); db.refresh(hazard) then fails to convert  *)
(* the stored string and the request ends without acknowledgement.          *)
(* The notification task is queued after commit and refresh, so on the 201  *)
(* path only.                                                               *)
report_hazard(t, lat, lon, age) ==
    /\ Len(hazards) < MaxHazards
    /\ IF ~HazardReportRequestValid(t, lat, lon, age)
         THEN /\ driver' = [NoDriver EXCEPT !.op = "report", !.code = 422,
                               !.detail = ValidationErrors(t, lat, lon, age)]
              /\ UNCHANGED <<hazards, dispatch>>
         ELSE \E persisted \in BOOLEAN :
                IF persisted
                  THEN /\ hazards' = db_add(hazards,
                                NewHazard(Len(hazards) + 1, t, lat, lon, age))
                       /\ driver' =
                            IF t \in HazardType
                              THEN [NoDriver EXCEPT !.op = "report",
                                      !.code = 201,
                                      !.hazard_id = Len(hazards) + 1]
                              ELSE [NoDriver EXCEPT !.op = "report",
                                      !.code = 500,
                                      !.detail = {"hazard_type"}]
                       /\ dispatch' =
                            IF t \in HazardType
                              THEN add_task(dispatch, Len(hazards) + 1)
                              ELSE dispatch
                  ELSE /\ driver' = [NoDriver EXCEPT !.op = "report",
                                       !.code = 500, !.detail = {"store"}]
                       /\ UNCHANGED <<hazards, dispatch>>
    /\ UNCHANGED <<audit_logs, now, req, verifications, redeem, issue,
                   session, portal>>

(* The body of notify_authorities_of_hazard is the statement `pass`: it     *)
(* reads and writes nothing.                                                *)
placeholder_verifies(rows, hazard_id) ==
    [rows EXCEPT ![hazard_id].status = "VERIFIED"]
placeholder(rows, hazard_id) == rows

(* The background task of a report, run by the server at some time after    *)
(* the response was sent (or never, if the process stops first).            *)
notify_authorities_of_hazard(hazard_id) ==
    /\ hazard_id \in dispatch
    /\ dispatch' = dispatch \ {hazard_id}
    /\ hazards' = placeholder(hazards, hazard_id)
    /\ UNCHANGED <<audit_logs, now, req, driver, verifications, redeem, issue,
                   session, portal>>

(* Hazard.status == HazardStatus.X as a SQL filter: compares the stored     *)
(* name with the bound name of the member.                                  *)
filter_status(member) ==
    {h \in HazardIds : hazards[h].status = bind_processor(member)}

(* .order_by(Hazard.created_at.desc()): every ordering of the rows that is  *)
(* non-increasing in created_at (rows with equal created_at come in the     *)
(* order the store chooses).                                                *)
order_by_created_at_desc(S) ==
    {f \in [1..Cardinality(S) -> S] :
        /\ \A i, j \in 1..Cardinality(S) : i # j => f[i] # f[j]
        /\ \A i, j \in 1..Cardinality(S) :
              i < j => hazards[f[i]].created_at >= hazards[f[j]].created_at}

(* .limit(n): SQLite (the default DATABASE_URL) treats a negative LIMIT as  *)
(* no limit.                                                                *)
limit(f, n) ==
    IF n < 0 \/ n >= Len(f) THEN f ELSE SubSeq(f, 1, n)

(* db.get_verified_hazards(db, limit): the possible result lists.           *)
VisibleStatusPending == EnumMember("PENDING_AUTHORITY")
VisibleStatus == EnumMember("VERIFIED")
get_verified_hazards(n) ==
    {limit(f, n) : f \in order_by_created_at_desc(filter_status(VisibleStatus))}

(* response_model=list[HazardResponse]: the fields read from each ORM      *)
(* object for the driver's response.                                        *)
HazardResponseWithStatus(row) ==
    [id |-> row.id, hazard_type |-> row.hazard_type,
     latitude |-> row.latitude, longitude |-> row.longitude,
     status |-> row.status, created_at |-> row.created_at]
HazardResponse(row) ==
    [id |-> row.id, hazard_type |-> row.hazard_type,
     latitude |-> row.latitude, longitude |-> row.longitude,
     created_at |-> row.created_at]

(* GET /hazards/verified?limit=n: the same query as get_verified_hazards;   *)
(* the rows found are returned through HazardResponse.                      *)
get_verified_hazards_for_driver(n) ==
    /\ \E result \in get_verified_hazards(n) :
          driver' = [NoDriver EXCEPT !.op = "verified", !.code = 200,
                        !.limit = n, !.result = result,
                        !.body = [i \in DOMAIN result |->
                                     HazardResponse(hazards[result[i]])]]
    /\ UNCHANGED <<hazards, audit_logs, now, req, verifications, redeem, issue,
                   dispatch, session, portal>>

(* --------------------------- authority_routes.py ----------------------- *)
(* The requests modelled are those that passed Depends(get_current_        *)
(* authority); `authority` is the id of the authority it returned.         *)
Ops == {"verify", "reject", "resolve"}

(* the status the handler requires (HazardStatus.X.value in its check)      *)
RequiredStatus(op) ==
    CASE op = "verify" -> value("PENDING_AUTHORITY")
      [] op = "reject" -> value("PENDING_AUTHORITY")
      [] op = "resolve" -> value("VERIFIED")

(* the status the handler assigns                                           *)
TargetStatus(op) ==
    CASE op = "verify" -> value("VERIFIED")
      [] op = "reject" -> value("RESOLVED")
      [] op = "resolve" -> value("RESOLVED")

(* the action tag of the handler's audit entry                              *)
ActionTag(op) ==
    CASE op = "verify" -> "VERIFY"
      [] op = "reject" -> "REJECT"
      [] op = "resolve" -> "RESOLVE"

Respond(w, code, status, verified_at) ==
    [req EXCEPT ![w].pc = "done", ![w].code = code, ![w].status = status,
                ![w].verified_at = verified_at]

(* workers that hold a loaded ORM object of the hazard                      *)
InFlight(hazard_id) ==
    {v \in Workers : req[v].pc = "loaded" /\ req[v].hazard_id = hazard_id}

(* First statement of a handler:                                            *)
(*   hazard = db.query(Hazard).filter(Hazard.id == hazard_id).first()       *)
(* 404 when there is no such row; otherwise the worker holds the ORM object *)
(* whose status attribute is the loaded enum member.  Loading a row whose   *)
(* hazard_type is not a name of models.HazardType raises (500).             *)
query_hazard_no_404(w, op, hazard_id, authority) ==
    /\ req[w].pc # "loaded"
    /\ IF first(hazard_id) = 0
         THEN req' = [req EXCEPT ![w] =
                        [NoRequest EXCEPT !.pc = "done", !.op = op,
                            !.hazard_id = hazard_id, !.authority = authority,
                            !.code = 200]]
         ELSE IF hazards[hazard_id].hazard_type \notin HazardType
         THEN req' = [req EXCEPT ![w] =
                        [NoRequest EXCEPT !.pc = "done", !.op = op,
                            !.hazard_id = hazard_id, !.authority = authority,
                            !.code = 500]]
         ELSE req' = [v \in Workers |->
                        IF v = w
                          THEN [NoRequest EXCEPT !.pc = "loaded", !.op = op,
                                  !.hazard_id = hazard_id,
                                  !.authority = authority,
                                  !.loaded =
                                     result_processor(hazards[hazard_id].status),
                                  !.overlapped = InFlight(hazard_id) # {}]
                          ELSE IF v \in InFlight(hazard_id)
                                 THEN [req[v] EXCEPT !.overlapped = TRUE]
                                 ELSE req[v]]
    /\ UNCHANGED <<hazards, audit_logs, now, driver, verifications, redeem, issue,
                   dispatch, session, portal>>
query_hazard(w, op, hazard_id, authority) ==
    /\ req[w].pc # "loaded"
    /\ IF first(hazard_id) = 0
         THEN req' = [req EXCEPT ![w] =
                        [NoRequest EXCEPT !.pc = "done", !.op = op,
                            !.hazard_id = hazard_id, !.authority = authority,
                            !.code = 404]]
         ELSE IF hazards[hazard_id].hazard_type \notin HazardType
         THEN req' = [req EXCEPT ![w] =
                        [NoRequest EXCEPT !.pc = "done", !.op = op,
                            !.hazard_id = hazard_id, !.authority = authority,
                            !.code = 500]]
         ELSE req' = [v \in Workers |->
                        IF v = w
                          THEN [NoRequest EXCEPT !.pc = "loaded", !.op = op,
                                  !.hazard_id = hazard_id,
                                  !.authority = authority,
                                  !.loaded =
                                     result_processor(hazards[hazard_id].status),
                                  !.overlapped = InFlight(hazard_id) # {}]
                          ELSE IF v \in InFlight(hazard_id)
                                 THEN [req[v] EXCEPT !.overlapped = TRUE]
                                 ELSE req[v]]
    /\ UNCHANGED <<hazards, audit_logs, now, driver, verifications, redeem, issue,
                   dispatch, session, portal>>

(* The AuditLog(...) row built by a handler.                                *)
AuditLog(h, op, old_status, authority) ==
    [hazard_id |-> h, action |-> ActionTag(op), old_status |-> old_status,
     new_status |-> TargetStatus(op), timestamp |-> now,
     authority_id |-> authority]

(* db.commit() of a handler: the flush issues                               *)
(*   UPDATE hazards SET status=?, updated_at=? WHERE id=?                   *)
(*   INSERT INTO audit_logs ...                                             *)
(* in one transaction.  The UPDATE is keyed on the primary key only.        *)
commit(h, op, old_status, authority) ==
    /\ hazards' = [hazards EXCEPT
                      ![h].status = bind_processor(PlainStr(TargetStatus(op))),
                      ![h].updated_at = now]
    /\ audit_logs' = Append(audit_logs, AuditLog(h, op, old_status, authority))

(* `if current_status != HazardStatus.X.value: raise HTTPException(400)`    *)
InvalidStateTransitionInverted(current_status, op) ==
    current_status = RequiredStatus(op)
InvalidStateTransition(current_status, op) ==
    current_status # RequiredStatus(op)

(* Rest of a handler after the SELECT: status check (400), in-memory        *)
(* update, db.add(audit_log), db.commit(), db.refresh(hazard), response.    *)
(* verified_at is assigned on the ORM object by verify_hazard; Hazard has   *)
(* no such column, so it reaches the response but not the store.  A commit  *)
(* that cannot be persisted raises (500) and the session is closed without  *)
(* having committed anything.                                               *)
transition(w, op) ==
    /\ req[w].pc = "loaded"
    /\ req[w].op = op
    /\ LET h == req[w].hazard_id
           current_status == str(req[w].loaded)
       IN IF InvalidStateTransition(current_status, op)
            THEN /\ req' = Respond(w, 400, "", -1)
                 /\ UNCHANGED <<hazards, audit_logs>>
            ELSE \E persisted \in BOOLEAN :
                   IF persisted
                     THEN /\ commit(h, op, current_status, req[w].authority)
                          /\ req' = Respond(w, 200,
                                      result_processor(hazards'[h].status).v,
                                      IF op = "verify" THEN now ELSE -1)
                     ELSE /\ req' = Respond(w, 500, "", -1)
                          /\ UNCHANGED <<hazards, audit_logs>>
    /\ UNCHANGED <<now, driver, verifications, redeem, issue,
                   dispatch, session, portal>>

(* POST /authority/hazards/{id}/verify *)
verify_hazard_query(w, hazard_id, authority) ==
    /\ hazard_id \in HazardIdInputs
    /\ query_hazard(w, "verify", hazard_id, authority)
verify_hazard(w) ==
    /\ req[w].op = "verify"
    /\ transition(w, "verify")

(* POST /authority/hazards/{id}/reject *)
reject_hazard_query(w, hazard_id, authority) ==
    /\ hazard_id \in HazardIdInputs
    /\ query_hazard(w, "reject", hazard_id, authority)
reject_hazard(w) ==
    /\ req[w].op = "reject"
    /\ transition(w, "reject")

(* POST /authority/hazards/{id}/resolve *)
resolve_hazard_query(w, hazard_id, authority) ==
    /\ hazard_id \in HazardIdInputs
    /\ query_hazard(w, "resolve", hazard_id, authority)
resolve_hazard(w) ==
    /\ req[w].op = "resolve"
    /\ transition(w, "resolve")

(* ---------------------- verification tokens ---------------------------- *)
MaxRedeems == 2
TtlInputs == {0, 1}
TokenInputs == 1..MaxHazards

(* models.AuthorityVerification: the columns of a row.  There is no column  *)
(* named used, used_at or expires_at.                                       *)
AuthorityVerification(hazard_id, authority_id, token, ttl) ==
    [hazard_id |-> hazard_id, authority_id |-> authority_id, token |-> token,
     token_expires_at |-> now + ttl, is_verified |-> FALSE,
     verified_at |-> -1, created_at |-> now]

(* AuthorityVerification.is_token_expired *)
is_token_expired(row) == now > row.token_expires_at

(* a token counts as used once a redemption of it has been answered 200 *)
used(row) ==
    \E i \in DOMAIN redeem :
        redeem[i].token = row.token /\ redeem[i].code = 200

live(row) == ~is_token_expired(row) /\ ~used(row)

has_live_token(hazard_id) ==
    \E i \in DOMAIN verifications :
        verifications[i].hazard_id = hazard_id /\ live(verifications[i])

(* hazard_id = Column(..., unique=True) and token = Column(..., unique=True) *)
unique_hazard_id_off(rows, row) == TRUE
unique_hazard_id(rows, row) ==
    \A i \in DOMAIN rows : rows[i].hazard_id # row.hazard_id
unique_token(rows, row) ==
    \A i \in DOMAIN rows : rows[i].token # row.token

(* IssueToken(hazard_id, authority_id, ttl_hours), run for a reported       *)
(* hazard by the background task notify_authorities_of_hazard while other   *)
(* requests are served.  First the lookup of a live token of the hazard     *)
(* (ConflictError), then the INSERT of the new row, which the store refuses *)
(* when a unique column would repeat.                                       *)
IssueToken_check(w, hazard_id, authority_id, ttl) ==
    /\ issue[w].pc # "checked"
    /\ hazard_id \in HazardIds
    /\ issue' = [issue EXCEPT ![w] =
                    [pc |-> IF has_live_token(hazard_id)
                              THEN "done" ELSE "checked",
                     hazard_id |-> hazard_id, authority |-> authority_id,
                     ttl |-> ttl,
                     code |-> IF has_live_token(hazard_id)
                                THEN "ConflictError" ELSE ""]]
    /\ UNCHANGED <<hazards, audit_logs, now, req, driver, verifications,
                   redeem, dispatch, session, portal>>

IssueToken_insert(w) ==
    /\ issue[w].pc = "checked"
    /\ LET row == AuthorityVerification(issue[w].hazard_id,
                      issue[w].authority, Len(verifications) + 1,
                      issue[w].ttl)
       IN IF /\ unique_hazard_id(verifications, row)
             /\ unique_token(verifications, row)
            THEN /\ verifications' = Append(verifications, row)
                 /\ issue' = [issue EXCEPT ![w].pc = "done",
                                           ![w].code = "Issued"]
            ELSE /\ UNCHANGED verifications
                 /\ issue' = [issue EXCEPT ![w].pc = "done",
                                           ![w].code = "IntegrityError"]
    /\ UNCHANGED <<hazards, audit_logs, now, req, driver, redeem, dispatch,
                   session, portal>>

(* attribute access on a loaded row: a name that is not a column and was    *)
(* never assigned raises AttributeError (ok = FALSE)                        *)
getattr_lenient(row, name) ==
    IF name \in DOMAIN row THEN [ok |-> TRUE, v |-> row[name]]
    ELSE IF name = "used" THEN [ok |-> TRUE, v |-> FALSE]
    ELSE [ok |-> TRUE, v |-> row.token_expires_at]
getattr(row, name) ==
    IF name \in DOMAIN row THEN [ok |-> TRUE, v |-> row[name]]
                           ELSE [ok |-> FALSE, v |-> FALSE]

(* attribute assignment followed by commit: only columns are stored *)
setattr(row, name, val) ==
    IF name \in DOMAIN row THEN [row EXCEPT ![name] = val] ELSE row

(* .filter(AuthorityVerification.hazard_id == hazard_id,                    *)
(*         AuthorityVerification.token == token)                            *)
match_token_only(row, hazard_id, token) == row.token = token
match_verification(row, hazard_id, token) ==
    row.hazard_id = hazard_id /\ row.token = token

first_verification(hazard_id, token) ==
    LET m == {i \in DOMAIN verifications :
                 match_verification(verifications[i], hazard_id, token)}
    IN IF m = {} THEN 0 ELSE CHOOSE i \in m : \A j \in m : i <= j

RedeemResponse(hazard_id, token, matched, code, detail, authority) ==
    [hazard_id |-> hazard_id, token |-> token, matched |-> matched,
     at |-> now, code |-> code, detail |-> detail, authority |-> authority]

(* POST /authority/verify-token *)
verify_authority_token(hazard_id, token) ==
    /\ Len(redeem) < MaxRedeems
    /\ LET i == first_verification(hazard_id, token)
           Answer(code, detail, authority) ==
               redeem' = Append(redeem,
                   RedeemResponse(hazard_id, token, i, code, detail,
                                  authority))
       IN IF i = 0
            THEN /\ Answer(404, "Invalid verification token", 0)
                 /\ UNCHANGED verifications
          ELSE IF ~getattr(verifications[i], "used").ok
            THEN /\ Answer(500, "AttributeError", 0)
                 /\ UNCHANGED verifications
          ELSE IF getattr(verifications[i], "used").v = TRUE
            THEN /\ Answer(400, "Token has already been used", 0)
                 /\ UNCHANGED verifications
          ELSE IF ~getattr(verifications[i], "expires_at").ok
            THEN /\ Answer(500, "AttributeError", 0)
                 /\ UNCHANGED verifications
          ELSE IF now > getattr(verifications[i], "expires_at").v
            THEN /\ Answer(400, "Token has expired", 0)
                 /\ UNCHANGED verifications
          ELSE /\ verifications' =
                    [verifications EXCEPT ![i] =
                        setattr(setattr(@, "used", TRUE), "used_at", now)]
               /\ IF verifications[i].authority_id \in DOMAIN Authority
                    THEN Answer(200, "verified",
                                verifications[i].authority_id)
                    ELSE Answer(404, "Authority not found", 0)
    /\ UNCHANGED <<hazards, audit_logs, now, req, driver, issue, dispatch,
                   session, portal>>

(* ----------------------- auth.py: session tokens ----------------------- *)
(* `now` counts hours.  timedelta(minutes=m) in that unit.                  *)
timedelta(minutes) == minutes \div 60

SECRET_KEY == "JWT_SECRET_KEY"
ACCESS_TOKEN_EXPIRE_MINUTES_420 == 480 - 60
ACCESS_TOKEN_EXPIRE_MINUTES == 480

None == 0

(* jwt.encode(payload, key, algorithm="HS256"): the claims signed with the  *)
(* key.  The exp claim is written as a whole number of seconds; on the hour *)
(* grid of `now` that is the value itself.                                  *)
jwt_encode(payload, key) == [kind |-> "jwt", payload |-> payload, key |-> key]

(* create_access_token(data): exp = utcnow() + 480 minutes, then encode.    *)
create_access_token(data) ==
    jwt_encode([authority_id |-> data.authority_id, email |-> data.email,
                jurisdiction |-> data.jurisdiction, role |-> data.role,
                exp |-> now + timedelta(ACCESS_TOKEN_EXPIRE_MINUTES)],
               SECRET_KEY)

(* create_authority_token(authority) *)
create_authority_token(authority) ==
    create_access_token([authority_id |-> authority.id,
                         email |-> authority.email,
                         jurisdiction |-> authority.jurisdiction,
                         role |-> "VERIFIER"])

(* jwt.decode(token, key, algorithms=["HS256"]): the outcomes the installed *)
(* PyJWT can produce.  A string that is not a JWT and a signature made with *)
(* another key raise InvalidTokenError.  The exp claim is compared with the *)
(* current time: PyJWT 2 raises ExpiredSignatureError when exp <= now,      *)
(* PyJWT 1 when exp < now, so at exp = now both outcomes are possible.      *)
signature_ok(token, key) == token.key = key
jwt_decode(token, key) ==
    IF token.kind # "jwt" THEN {"InvalidTokenError"}
    ELSE IF ~signature_ok(token, key) THEN {"InvalidTokenError"}
    ELSE IF token.payload.exp < now THEN {"ExpiredSignatureError"}
    ELSE IF token.payload.exp = now THEN {"ExpiredSignatureError", "payload"}
    ELSE {"payload"}

(* decode_access_token(token): the payload, or 401.                         *)
decode_access_token(token) ==
    {IF r = "payload"
       THEN [code |-> 200, payload |-> token.payload, detail |-> ""]
     ELSE IF r = "ExpiredSignatureError"
       THEN [code |-> 401, payload |-> << >>, detail |-> "Token has expired"]
       ELSE [code |-> 401, payload |-> << >>,
             detail |-> "Could not validate credentials"]
     : r \in jwt_decode(token, SECRET_KEY)}

(* payload.get(name) *)
get(payload, name) ==
    IF name \in DOMAIN payload THEN payload[name] ELSE None

(* db.query(Authority).filter(Authority.id == authority_id).first() *)
authority_exists_any(authority_id) == TRUE
authority_exists(authority_id) == authority_id \in DOMAIN Authority

(* Depends(security), security = HTTPBearer(): a request without a bearer   *)
(* Authorization header is answered "Not authenticated" before any handler  *)
(* code runs, with 403 or 401 depending on the installed FastAPI.           *)
HTTPBearer(credentials) ==
    IF credentials.kind = "missing" THEN {403, 401} ELSE {200}

(* get_current_authority(credentials, db): the possible outcomes, each the  *)
(* response code and the id of the authority returned.  The row's is_active *)
(* column is not read.                                                      *)
get_current_authority(credentials) ==
    {[code |-> c, authority |-> 0, detail |-> "Not authenticated"] :
        c \in HTTPBearer(credentials) \ {200}}
    \cup
    (IF 200 \notin HTTPBearer(credentials) THEN {}
     ELSE {IF d.code # 200
             THEN [code |-> d.code, authority |-> 0, detail |-> d.detail]
           ELSE IF get(d.payload, "authority_id") = None
             THEN [code |-> 401, authority |-> 0,
                   detail |-> "Invalid authentication credentials"]
           ELSE IF ~authority_exists(get(d.payload, "authority_id"))
             THEN [code |-> 401, authority |-> 0,
                   detail |-> "Authority not found"]
             ELSE [code |-> 200,
                   authority |-> get(d.payload, "authority_id"),
                   detail |-> ""]
           : d \in decode_access_token(credentials)})

(* hash_password(password): bcrypt.hashpw with a fresh salt; the salt is    *)
(* part of the hash, so the hash determines the password it was made from.  *)
hash_password(password) == "$2b$" \o password

(* verify_password(plain_password, hashed_password): bcrypt.checkpw         *)
verify_password(plain_password, hashed_password) ==
    hashed_password = hash_password(plain_password)

(* hasattr(authority, 'password_hash') *)
hasattr(row, name) == getattr(row, name).ok

(* authenticate_authority(email, password, db): the id of the authority, or *)
(* None.                                                                    *)
authenticate_authority(email, password) ==
    LET m == {a \in DOMAIN Authority : Authority[a].email = email}
        authority == IF m = {} THEN None
                     ELSE CHOOSE a \in m : \A b \in m : a <= b
    IN IF authority = None THEN None
       ELSE IF ~hasattr(Authority[authority], "password_hash")
         THEN None
       ELSE IF getattr(Authority[authority], "password_hash").v = ""
         THEN None
       ELSE IF ~verify_password(password,
                   getattr(Authority[authority], "password_hash").v)
         THEN None
         ELSE authority

(* POST /authority/login *)
login_authority(email, password) ==
    /\ LET authority == authenticate_authority(email, password)
       IN IF authority = None
            THEN session' = [NoSession EXCEPT !.email = email,
                                !.password = password, !.login = 401]
            ELSE session' = [NoSession EXCEPT !.email = email,
                                !.password = password, !.login = 200,
                                !.token =
                                   create_authority_token(Authority[authority]),
                                !.issued_at = now, !.issued_for = authority]
    /\ UNCHANGED <<hazards, audit_logs, now, req, driver, verifications,
                   redeem, issue, dispatch, portal>>

(* create_authority_token applied to an authority row, outside a request.   *)
IssueSessionToken(a) ==
    /\ session' = [NoSession EXCEPT
                      !.token = create_authority_token(Authority[a]),
                      !.issued_at = now, !.issued_for = a]
    /\ UNCHANGED <<hazards, audit_logs, now, req, driver, verifications,
                   redeem, issue, dispatch, portal>>

(* decode_access_token applied to the token last created.                   *)
ValidateSessionToken ==
    /\ session.token.kind = "jwt"
    /\ \E r \in decode_access_token(session.token) :
          session' = [session EXCEPT !.decoded_at = now, !.code = r.code,
                         !.authority_id =
                            IF r.code = 200
                              THEN get(r.payload, "authority_id") ELSE None]
    /\ UNCHANGED <<hazards, audit_logs, now, req, driver, verifications,
                   redeem, issue, dispatch, portal>>

(* -------------- authority_routes.py behind the bearer token ------------ *)
(* A verify, reject or resolve request as the service receives it:          *)
(* Depends(get_current_authority) runs first; when it raises, the handler   *)
(* body does not run; otherwise the handler starts with its SELECT.         *)
authority_request(w, op, hazard_id, credentials) ==
    /\ req[w].pc # "loaded"
    /\ \E r \in get_current_authority(credentials) :
          IF r.code # 200
            THEN /\ req' = [req EXCEPT ![w] =
                              [NoRequest EXCEPT !.pc = "done", !.op = op,
                                  !.hazard_id = hazard_id, !.code = r.code]]
                 /\ UNCHANGED <<hazards, audit_logs, now, driver,
                                verifications, redeem, issue, dispatch,
                                session, portal>>
            ELSE query_hazard(w, op, hazard_id, r.authority)

(* response_model=list[HazardDetailResponse]: the fields read from each ORM *)
(* object.  verified_at is Optional with default None; Hazard has no such   *)
(* attribute.                                                               *)
HazardDetailResponse(row) ==
    [id |-> row.id, hazard_type |-> row.hazard_type,
     latitude |-> row.latitude, longitude |-> row.longitude,
     observed_at |-> row.observed_at,
     status |-> value(result_processor(row.status).v),
     verified_at |-> None, created_at |-> row.created_at,
     updated_at |-> row.updated_at]

PortalResponse(op, credentials, code, authority, hazard_id, body) ==
    [op |-> op, credentials |-> credentials, code |-> code,
     authority |-> authority, hazard_id |-> hazard_id, body |-> body]

(* query.filter(Hazard.status == status_filter.value) when a filter is      *)
(* given: the string is bound against the stored name.                      *)
NoStatusFilter == "None"
filter_status_value(status_filter) ==
    IF status_filter = NoStatusFilter THEN HazardIds
    ELSE {h \in HazardIds :
             hazards[h].status = bind_processor(PlainStr(value(status_filter)))}

(* GET /authority/hazards?status_filter=&limit= *)
get_hazards_for_authority(status_filter, credentials, n) ==
    /\ \E r \in get_current_authority(credentials) :
          IF r.code # 200
            THEN portal' = PortalResponse("list", credentials, r.code, 0, 0, << >>)
            ELSE \E f \in order_by_created_at_desc(
                             filter_status_value(status_filter)) :
                   LET rows == limit(f, n)
                   IN IF \E i \in DOMAIN rows :
                            hazards[rows[i]].hazard_type \notin HazardType
                        THEN portal' = PortalResponse("list", credentials,
                                            500, r.authority, 0, << >>)
                        ELSE portal' = PortalResponse("list", credentials,
                                 200, r.authority, 0,
                                 [i \in DOMAIN rows |->
                                     HazardDetailResponse(hazards[rows[i]])])
    /\ UNCHANGED <<hazards, audit_logs, now, req, driver, verifications,
                   redeem, issue, dispatch, session>>

(* schemas.HazardWithAuditResponse: its required fields.                    *)
HazardWithAuditResponse == {"hazard", "audit_logs"}

(* the attributes of a loaded Hazard object: its columns and relationships  *)
HazardAttributes(row) == DOMAIN row \cup {"audit_logs", "verification"}

(* FastAPI validates the returned object against response_model, reading    *)
(* the model's fields from the object's attributes; a required field the    *)
(* object does not have fails the validation and the request ends 500.      *)
validate_response(fields, attributes) == fields \subseteq attributes

(* Hazard.audit_logs: relationship("AuditLog") without order_by; the rows   *)
(* of the hazard in the order the store returns them.                       *)
audit_logs_of(hazard_id) ==
    LET idx == {i \in DOMAIN audit_logs :
                   audit_logs[i].hazard_id = hazard_id}
    IN {[k \in 1..Cardinality(idx) |-> audit_logs[f[k]]] :
           f \in {g \in [1..Cardinality(idx) -> idx] :
                     \A i, j \in 1..Cardinality(idx) : i # j => g[i] # g[j]}}

(* GET /authority/hazards/{hazard_id} *)
get_hazard_detail_with_audit(hazard_id, credentials) ==
    /\ \E r \in get_current_authority(credentials) :
          IF r.code # 200
            THEN portal' = PortalResponse("detail", credentials, r.code, 0,
                                          hazard_id, << >>)
          ELSE IF first(hazard_id) = 0
            THEN portal' = PortalResponse("detail", credentials, 404,
                                          r.authority, hazard_id, << >>)
          ELSE IF hazards[hazard_id].hazard_type \notin HazardType
            THEN portal' = PortalResponse("detail", credentials, 500,
                                          r.authority, hazard_id, << >>)
          ELSE IF ~validate_response(HazardWithAuditResponse,
                                     HazardAttributes(hazards[hazard_id]))
            THEN portal' = PortalResponse("detail", credentials, 500,
                                          r.authority, hazard_id, << >>)
            ELSE \E logs \in audit_logs_of(hazard_id) :
                   portal' = PortalResponse("detail", credentials, 200,
                       r.authority, hazard_id,
                       <<HazardDetailResponse(hazards[hazard_id]), logs>>)
    /\ UNCHANGED <<hazards, audit_logs, now, req, driver, verifications,
                   redeem, issue, dispatch, session>>

(* GET /authority/stats: the handler runs three COUNT queries one after the *)
(* other, each reading the committed rows at the moment it runs, and then   *)
(* builds its result.  While the request is in flight portal holds op       *)
(* "stats", code 0 and in body the counts read so far.                      *)
StatsOrder == <<"PENDING_AUTHORITY", "VERIFIED", "RESOLVED">>

(* db.query(Hazard).filter(Hazard.status == HazardStatus.X.value).count():  *)
(* a scalar SELECT of the row count, no row is loaded.                      *)
count(status) == Cardinality(filter_status_value(status))

(* the request arrives: Depends(get_current_authority) is resolved          *)
get_authority_stats(credentials) ==
    /\ ~(portal.op = "stats" /\ portal.code = 0)
    /\ \E r \in get_current_authority(credentials) :
          IF r.code # 200
            THEN portal' = PortalResponse("stats", credentials, r.code, 0, 0,
                                          << >>)
            ELSE portal' = PortalResponse("stats", credentials, 0,
                                          r.authority, 0, << >>)
    /\ UNCHANGED <<hazards, audit_logs, now, req, driver, verifications,
                   redeem, issue, dispatch, session>>

(* the next of the three count queries                                      *)
get_authority_stats_count ==
    /\ portal.op = "stats" /\ portal.code = 0
    /\ Len(portal.body) < Len(StatsOrder)
    /\ portal' = [portal EXCEPT !.body =
                     Append(@, count(StatsOrder[Len(@) + 1]))]
    /\ UNCHANGED <<hazards, audit_logs, now, req, driver, verifications,
                   redeem, issue, dispatch, session>>

(* return {"pending_authority": ..., "verified": ..., "resolved": ...,      *)
(*         "total": pending + verified + resolved}                          *)
get_authority_stats_return ==
    /\ portal.op = "stats" /\ portal.code = 0
    /\ Len(portal.body) = Len(StatsOrder)
    /\ LET pending == portal.body[1]
           verified == portal.body[2]
           resolved == portal.body[3]
       IN portal' = [portal EXCEPT !.code = 200,
                        !.body = [pending_authority |-> pending,
                                  verified |-> verified,
                                  resolved |-> resolved,
                                  total |-> pending + verified + resolved]]
    /\ UNCHANGED <<hazards, audit_logs, now, req, driver, verifications,
                   redeem, issue, dispatch, session>>

(* ------------------------------- clock --------------------------------- *)
Tick ==
    /\ now < MaxTime
    /\ now' = now + 1
    /\ UNCHANGED <<hazards, audit_logs, req, driver, verifications, redeem, issue,
                   dispatch, session, portal>>

(* the clock over the lifetime of a session token *)
Elapse ==
    /\ now < MaxClock
    /\ now' = now + 1
    /\ UNCHANGED <<hazards, audit_logs, req, driver, verifications, redeem,
                   issue, dispatch, session, portal>>

(* --------------------------- specification ----------------------------- *)
Next ==
    \/ \E t \in HazardTypeInputs, lat \in LatitudeInputs,
          lon \in LongitudeInputs, age \in ObservedAgeInputs :
            report_hazard(t, lat, lon, age)
    \/ \E n \in Limits : get_verified_hazards_for_driver(n)
    \/ \E w \in Workers, h \in HazardIdInputs, a \in AuthorityIds :
            verify_hazard_query(w, h, a)
    \/ \E w \in Workers : verify_hazard(w)
    \/ \E w \in Workers, h \in HazardIdInputs, a \in AuthorityIds :
            reject_hazard_query(w, h, a)
    \/ \E w \in Workers : reject_hazard(w)
    \/ \E w \in Workers, h \in HazardIdInputs, a \in AuthorityIds :
            resolve_hazard_query(w, h, a)
    \/ \E w \in Workers : resolve_hazard(w)
    \/ Tick

Spec == Init /\ [][Next]_vars

(* Sequential use of the API: one authority request at a time (worker 1),   *)
(* by either authority, and driver reports over the wider inputs.           *)
SeqWorker == 1
NextSeq ==
    \/ \E t \in SeqHazardTypeInputs, lat \in SeqLatitudeInputs,
          lon \in SeqLongitudeInputs, age \in SeqObservedAgeInputs :
            report_hazard(t, lat, lon, age)
    \/ \E n \in Limits : get_verified_hazards_for_driver(n)
    \/ \E h \in HazardIdInputs, a \in SeqAuthorityIds :
            verify_hazard_query(SeqWorker, h, a)
    \/ verify_hazard(SeqWorker)
    \/ \E h \in HazardIdInputs, a \in SeqAuthorityIds :
            reject_hazard_query(SeqWorker, h, a)
    \/ reject_hazard(SeqWorker)
    \/ \E h \in HazardIdInputs, a \in SeqAuthorityIds :
            resolve_hazard_query(SeqWorker, h, a)
    \/ resolve_hazard(SeqWorker)
    \/ Tick

SpecSeq == Init /\ [][NextSeq]_vars

(* The email-link flow: reports, token issues one at a time, redemptions,   *)
(* and the clock.                                                           *)
NextToken ==
    \/ \E t \in HazardTypeInputs, lon \in LongitudeInputs :
            report_hazard(t, 40, lon, 0)
    \/ \E h \in HazardIdInputs, a \in AuthorityIds, ttl \in TtlInputs :
            IssueToken_check(SeqWorker, h, a, ttl)
    \/ IssueToken_insert(SeqWorker)
    \/ \E h \in HazardIdInputs, k \in TokenInputs :
            verify_authority_token(h, k)
    \/ Tick

SpecToken == Init /\ [][NextToken]_vars

(* Token issues by background tasks running on several workers at once.     *)
NextIssue ==
    \/ \E t \in HazardTypeInputs, lon \in LongitudeInputs :
            report_hazard(t, 40, lon, 0)
    \/ \E w \in Workers, h \in HazardIdInputs, a \in AuthorityIds,
          ttl \in TtlInputs : IssueToken_check(w, h, a, ttl)
    \/ \E w \in Workers : IssueToken_insert(w)
    \/ Tick

SpecIssue == Init /\ [][NextIssue]_vars

(* The authority portal as the service receives it: requests carrying a    *)
(* credential, one at a time.  The credentials are what a client can send:  *)
(* no header, a string that is not a JWT, and signed tokens (the service's  *)
(* key is the environment's JWT_SECRET_KEY) naming the active authority 1,  *)
(* the inactive authority 3 or an id that is in no row, expiring in the     *)
(* past, at MaxTime or later, with or without the authority_id claim, and   *)
(* a token signed with another key.                                         *)
UnknownAuthorityId == InactiveAuthorityId + 1
Claims(a, exp) ==
    [authority_id |-> a, email |-> "", jurisdiction |-> "LOCAL",
     role |-> "VERIFIER", exp |-> exp]
CredentialInputs ==
    {[kind |-> "missing"], [kind |-> "malformed"],
     jwt_encode(Claims(1, MaxTime + 1), SECRET_KEY),
     jwt_encode(Claims(InactiveAuthorityId, MaxTime + 1), SECRET_KEY),
     jwt_encode(Claims(1, MaxTime), SECRET_KEY),
     jwt_encode(Claims(1, -1), SECRET_KEY),
     jwt_encode(Claims(UnknownAuthorityId, MaxTime + 1), SECRET_KEY),
     jwt_encode([role |-> "VERIFIER", exp |-> MaxTime + 1], SECRET_KEY),
     jwt_encode(Claims(1, MaxTime + 1), "another key")}
StatusFilterInputs == {NoStatusFilter, "PENDING_AUTHORITY", "VERIFIED"}

NextAuth ==
    \/ \E lon \in LongitudeInputs : report_hazard("POTHOLE", 40, lon, 0)
    \/ \E op \in Ops, h \in HazardIdInputs, c \in CredentialInputs :
            authority_request(SeqWorker, op, h, c)
    \/ \E op \in Ops : transition(SeqWorker, op)
    \/ \E sf \in StatusFilterInputs, c \in CredentialInputs :
            get_hazards_for_authority(sf, c, MaxLimit)
    \/ \E h \in HazardIdInputs, c \in CredentialInputs :
            get_hazard_detail_with_audit(h, c)
    \/ Tick

SpecAuth == Init /\ [][NextAuth]_vars

(* Login and the session token functions over the hours of a token's       *)
(* lifetime.  PasswordOf(a) is the password the authority a was given.      *)
PasswordOf(a) == "secret of " \o Email(a)
EmailInputs == {Email(1), Email(InactiveAuthorityId), "nobody@agency"}
PasswordInputs == {PasswordOf(1), "guess"}
NextJwt ==
    \/ \E e \in EmailInputs, pw \in PasswordInputs : login_authority(e, pw)
    \/ \E a \in DOMAIN Authority : IssueSessionToken(a)
    \/ ValidateSessionToken
    \/ Elapse

SpecJwt == Init /\ [][NextJwt]_vars

(* All writers of the store side by side: reports, authority requests one  *)
(* at a time, token issues and redemptions.                                 *)
NextFrame ==
    \/ \E lon \in LongitudeInputs : report_hazard("POTHOLE", 40, lon, 0)
    \/ \E op \in Ops, h \in HazardIdInputs :
            query_hazard(SeqWorker, op, h, 1)
    \/ \E op \in Ops : transition(SeqWorker, op)
    \/ \E h \in HazardIdInputs : IssueToken_check(SeqWorker, h, 1, 1)
    \/ IssueToken_insert(SeqWorker)
    \/ \E h \in HazardIdInputs, k \in TokenInputs :
            verify_authority_token(h, k)
    \/ Tick

SpecFrame == Init /\ [][NextFrame]_vars

(* Reports and their notification tasks: every queued task runs at some    *)
(* later step or not at all, while reports and listings go on.              *)
DispatchHazardTypeInputs == {"POTHOLE", "DEBRIS"}
NextDispatch ==
    \/ \E t \in DispatchHazardTypeInputs, lat \in LatitudeInputs,
          lon \in LongitudeInputs :
            report_hazard(t, lat, lon, 0)
    \/ \E h \in HazardIdInputs : notify_authorities_of_hazard(h)
    \/ \E n \in Limits : get_verified_hazards_for_driver(n)
    \/ Tick

SpecDispatch == Init /\ [][NextDispatch]_vars

(* The statistics request, its three count queries interleaved with the     *)
(* reports of drivers and the requests of an authority.                     *)
StatsCredentialInputs ==
    {[kind |-> "missing"], jwt_encode(Claims(1, MaxTime + 1), SECRET_KEY)}
NextStats ==
    \/ \E lon \in LongitudeInputs : report_hazard("POTHOLE", 40, lon, 0)
    \/ \E op \in Ops, h \in HazardIdInputs : query_hazard(SeqWorker, op, h, 1)
    \/ \E op \in Ops : transition(SeqWorker, op)
    \/ \E c \in StatsCredentialInputs : get_authority_stats(c)
    \/ get_authority_stats_count
    \/ get_authority_stats_return
    \/ Tick

SpecStats == Init /\ [][NextStats]_vars

(* =========================== properties ================================ *)
Pending == EnumMember("PENDING_AUTHORITY")

(* worker w completes a request of handler op in this step *)
Completes(w, op) ==
    /\ req[w].pc = "loaded"
    /\ req[w].op = op
    /\ req'[w].pc = "done"

(* worker w commits a transition of hazard h by handler op in this step *)
Commits(w, op, h) ==
    /\ Completes(w, op)
    /\ req[w].hazard_id = h
    /\ req'[w].code = 200

(* C1: every change of a hazard's stored status is PENDING_AUTHORITY ->     *)
(* VERIFIED made by verify, VERIFIED -> RESOLVED made by resolve, or        *)
(* PENDING_AUTHORITY -> RESOLVED made by reject; there is no other change,  *)
(* in particular none out of RESOLVED and none back to an earlier status.   *)
C1_LegalChange(h) ==
    LET old == hazards[h].status
        new == hazards'[h].status
    IN old # new =>
         \/ /\ old = "PENDING_AUTHORITY" /\ new = "VERIFIED"
            /\ \E w \in Workers : Commits(w, "verify", h)
         \/ /\ old = "VERIFIED" /\ new = "RESOLVED"
            /\ \E w \in Workers : Commits(w, "resolve", h)
         \/ /\ old = "PENDING_AUTHORITY" /\ new = "RESOLVED"
            /\ \E w \in Workers : Commits(w, "reject", h)
C2_OnlyVerifiedVisible ==
    [][\A n \in Limits :
          get_verified_hazards_for_driver(n) =>
             \A i \in DOMAIN driver'.result :
                hazards[driver'.result[i]].status = "VERIFIED"]_vars

(* a driver listing was answered while a PENDING_AUTHORITY hazard exists    *)
C2_Witness ==
    /\ driver.op = "verified"
    /\ \E h \in HazardIds : hazards[h].status = "PENDING_AUTHORITY"

(* C3 (as claimed): a verify request that found the hazard with status      *)
(* PENDING_AUTHORITY, and whose commit was not refused by the store, is     *)
(* answered 200 with status VERIFIED and verified_at set.                   *)
C3_VerifyPendingSucceeds ==
    \A w \in Workers :
        (/\ req[w].pc = "done" /\ req[w].op = "verify"
         /\ req[w].loaded = Pending
         /\ req[w].code # 500)
        => /\ req[w].code = 200
           /\ req[w].status = "VERIFIED"
           /\ req[w].verified_at >= 0

(* C6: of two requests that were in flight on the same hazard at the same   *)
(* time with the same loaded status, at most one is answered 200; and a     *)
(* request answered 400 writes neither the hazard nor the audit log.        *)
C6_NotBothSucceed ==
    \A w1, w2 \in Workers :
        (/\ w1 # w2
         /\ req[w1].pc = "done" /\ req[w2].pc = "done"
         /\ req[w1].hazard_id = req[w2].hazard_id
         /\ req[w1].overlapped /\ req[w2].overlapped
         /\ req[w1].loaded = req[w2].loaded
         /\ req[w1].loaded # NoValue)
        => ~(req[w1].code = 200 /\ req[w2].code = 200)
C6_LoserWritesNothing ==
    \A w \in Workers : \A op \in Ops :
        (Completes(w, op) /\ req'[w].code = 400)
        => UNCHANGED <<hazards, audit_logs>>
C9_Step(w) ==
    LET h == req[w].hazard_id
    IN Completes(w, "resolve") =>
         /\ req'[w].code = 200 =>
               /\ hazards[h].status = "VERIFIED"
               /\ hazards'[h].status = "RESOLVED"
         /\ hazards[h].status = "PENDING_AUTHORITY" =>
               /\ req'[w].code = 400
               /\ UNCHANGED <<hazards, audit_logs>>
C9_ResolveOnlyFromVerified ==
    [][\A w \in Workers : C9_Step(w)]_vars

(* a resolve request on a PENDING_AUTHORITY hazard has been answered 400    *)
C9_Witness ==
    \E w \in Workers :
        /\ req[w].pc = "done" /\ req[w].op = "resolve" /\ req[w].code = 400
        /\ req[w].loaded = Pending
        /\ hazards[req[w].hazard_id].status = "PENDING_AUTHORITY"

(* C10 (as claimed): a reject request that found the hazard with status     *)
(* PENDING_AUTHORITY, and whose commit was not refused by the store, is     *)
(* answered 200 with status RESOLVED and the hazard has an audit entry of   *)
(* action REJECT.                                                           *)
C10_RejectPendingResolves ==
    \A w \in Workers :
        (/\ req[w].pc = "done" /\ req[w].op = "reject"
         /\ req[w].loaded = Pending
         /\ req[w].code # 500)
        => /\ req[w].code = 200
           /\ req[w].status = "RESOLVED"
           /\ \E i \in DOMAIN audit_logs :
                 /\ audit_logs[i].hazard_id = req[w].hazard_id
                 /\ audit_logs[i].action = "REJECT"


C13_ValidReportAcknowledged ==
    (/\ driver.op = "report"
     /\ driver.code # 422
     /\ driver.detail # {"store"})
    => /\ driver.code = 201
       /\ driver.hazard_id \in HazardIds
       /\ hazards[driver.hazard_id].status = "PENDING_AUTHORITY"

(* C14 (as claimed): every stored hazard was observed at most 24 hours      *)
(* before, and not after, the time it was created.                          *)
C14_ObservedWithin24Hours ==
    \A h \in HazardIds :
        hazards[h].created_at - hazards[h].observed_at \in 0..24

(* C15: a report whose latitude is outside [-90, 90] or whose longitude is  *)
(* outside [-180, 180] is answered 422 and stores nothing; every stored     *)
(* hazard has latitude in [-90, 90] and longitude in [-180, 180].           *)
C15_StoredInRange ==
    \A h \in HazardIds :
        /\ hazards[h].latitude \in (-90)..90
        /\ hazards[h].longitude \in (-180)..180
C15_OutOfRangeRefused ==
    \/ driver'.op # "report"
    \/ driver'.code = 422 /\ UNCHANGED hazards
    \/ \A t \in SeqHazardTypeInputs, lat \in SeqLatitudeInputs,
          lon \in SeqLongitudeInputs, age \in SeqObservedAgeInputs :
           (lat \notin (-90)..90 \/ lon \notin (-180)..180)
           => ~report_hazard(t, lat, lon, age)
C15_CoordinatesInRange ==
    [](C15_StoredInRange) /\ [][C15_OutOfRangeRefused]_vars

(* a report with an out-of-range coordinate has been refused, and a hazard  *)
(* at the boundary latitude 90, longitude -180 is stored                    *)
C15_Witness ==
    /\ driver.op = "report" /\ driver.code = 422
    /\ driver.detail \cap {"latitude", "longitude"} # {}
    /\ \E h \in HazardIds :
          hazards[h].latitude = 90 /\ hazards[h].longitude = -180

C17_ExpiredAnsweredExpired ==
    \A i \in DOMAIN redeem :
        (/\ redeem[i].matched # 0
         /\ redeem[i].at > verifications[redeem[i].matched].token_expires_at)
        => /\ redeem[i].code = 400
           /\ redeem[i].detail = "Token has expired"

(* C18: a redemption for which no row has both the supplied hazard id and   *)
(* the supplied token is answered 404 and changes no row; in particular it  *)
(* is not answered 200.                                                     *)
C18_Step ==
    Len(redeem') = Len(redeem) + 1 =>
        LET e == redeem'[Len(redeem')]
        IN (\A i \in DOMAIN verifications :
                ~(/\ verifications[i].hazard_id = e.hazard_id
                  /\ verifications[i].token = e.token))
           => /\ e.code = 404
              /\ UNCHANGED verifications
C18_UnmatchedNotFound == [][C18_Step]_vars

(* a token issued for one hazard was presented, after its issue, with the   *)
(* other hazard's id and the redemption was answered 404                    *)
C18_Witness ==
    \E i \in DOMAIN redeem : \E r \in DOMAIN verifications :
        /\ redeem[i].code = 404
        /\ verifications[r].token = redeem[i].token
        /\ verifications[r].hazard_id # redeem[i].hazard_id
        /\ verifications[r].created_at < redeem[i].at

(* C19: every hazard has at most one live (unexpired, unused) token row;    *)
(* a token issue that finds a live token of its hazard ends with            *)
(* ConflictError and adds no row.                                           *)
C19_OneLiveToken ==
    \A h \in HazardIds :
        Cardinality({i \in DOMAIN verifications :
                        /\ verifications[i].hazard_id = h
                        /\ live(verifications[i])}) <= 1
C19_ConflictRefused ==
    \A w \in Workers :
        (/\ issue[w].pc # "checked"
         /\ issue'[w] # issue[w]
         /\ has_live_token(issue'[w].hazard_id))
        => /\ issue'[w].code = "ConflictError"
           /\ UNCHANGED verifications
Defective(c) ==
    \/ c.kind \in {"missing", "malformed"}
    \/ c.key # SECRET_KEY
    \/ c.payload.exp < now
    \/ "authority_id" \notin DOMAIN c.payload
    \/ c.payload.authority_id \notin DOMAIN Authority

AuthError == {401, 403}

(* C22: a verify, reject or resolve request, a hazard list request and a    *)
(* hazard detail request that carry a missing, malformed, forged or expired *)
(* token, a token without an authority id or one naming an authority that   *)
(* does not exist are answered with an authentication error (401, or 403    *)
(* for a missing header) and change no hazard, audit entry or token.        *)
C22_Step ==
    /\ (req'[SeqWorker] # req[SeqWorker] /\ req[SeqWorker].pc # "loaded")
       => \A c \in {d \in CredentialInputs : Defective(d)} :
             authority_request(SeqWorker, req'[SeqWorker].op,
                               req'[SeqWorker].hazard_id, c)
             => /\ req'[SeqWorker].pc = "done"
                /\ req'[SeqWorker].code \in AuthError
                /\ UNCHANGED <<hazards, audit_logs, verifications>>
    /\ (portal' # portal /\ Defective(portal'.credentials))
       => /\ portal'.op \in {"list", "detail"}
          /\ portal'.code \in AuthError
          /\ UNCHANGED <<hazards, audit_logs, verifications>>
C22_InvalidTokenRefused == [][C22_Step]_vars
C22_Witness ==
    /\ req[SeqWorker].pc = "done"
    /\ req[SeqWorker].code = 401
    /\ req[SeqWorker].hazard_id \in HazardIds
    /\ portal.op = "detail"
    /\ portal.code \in AuthError
    /\ portal.hazard_id \in HazardIds

(* C23: the notification task is queued only for a hazard whose row is      *)
(* committed; the report is acknowledged (201) while its task is still      *)
(* queued, not run; and a step that runs a task, whenever it comes, leaves  *)
(* every hazard row (its existence, status and all other columns) and the   *)
(* audit log as they were.  A task that never runs leaves the acknowledged  *)
(* hazard in place.                                                         *)
C23_QueuedAfterCommit ==
    \A h \in dispatch : h \in HazardIds /\ hazards[h].status = Pending.v
C23_Step ==
    /\ (driver' # driver /\ driver'.op = "report" /\ driver'.code = 201)
       => /\ driver'.hazard_id \in DOMAIN hazards'
          /\ driver'.hazard_id \notin DOMAIN hazards
          /\ driver'.hazard_id \in dispatch'
    /\ (driver' # driver /\ driver'.op = "report" /\ driver'.code # 201)
       => dispatch' = dispatch
    /\ dispatch' # dispatch /\ dispatch' \subseteq dispatch
       => UNCHANGED <<hazards, audit_logs, driver>>
C24_Ids(rows) == {rows[k].id : k \in DOMAIN rows}
C24_NoCollision ==
    \A j, k \in DOMAIN hazards : j # k => hazards[j].id # hazards[k].id
C24_Step ==
    /\ C24_Ids(hazards) \subseteq C24_Ids(hazards')
    /\ Len(hazards') >= Len(hazards)
    /\ \A k \in DOMAIN hazards : hazards'[k].id = hazards[k].id
C24_IdsPermanent == []C24_NoCollision /\ [][C24_Step]_vars
C24_Witness ==
    /\ Len(hazards) = 2
    /\ hazards[1].id # hazards[2].id
    /\ now > hazards[1].created_at
    /\ \E w \in Workers :
          /\ req[w].pc = "done" /\ req[w].op = "reject"
          /\ req[w].hazard_id = hazards[1].id
          /\ req[w].code = 400

(* C26 (as claimed): a hazard detail request of an authenticated authority  *)
(* for a stored hazard is answered 200 with that hazard and all of its      *)
(* audit entries, in non-decreasing order of timestamp.                     *)
C26_DetailWithHistory ==
    (/\ portal.op = "detail"
     /\ portal.authority \in DOMAIN Authority
     /\ portal.hazard_id \in HazardIds)
    => /\ portal.code = 200
       /\ portal.body[1].id = portal.hazard_id
       /\ Len(portal.body[2]) = Len(AuditOf(portal.hazard_id))
       /\ \A i, j \in DOMAIN portal.body[2] :
             i < j => portal.body[2][i].timestamp
                        <= portal.body[2][j].timestamp

(* C28: the list a driver receives is determined by the VERIFIED hazards    *)
(* and the limit alone: it is a listing, newest first and cut at the limit, *)
(* of the rows whose status is VERIFIED, whatever other hazards, audit      *)
(* entries, tokens, requests of authorities or authorities there are; and   *)
(* what the driver's response model reads from a hazard row has no status,  *)
(* audit, verification or authority field.                                  *)
C28_Verified == {h \in HazardIds : hazards[h].status = "VERIFIED"}
C28_Listing(V, n, f) ==
    /\ Len(f) = IF n < 0 \/ n >= Cardinality(V) THEN Cardinality(V) ELSE n
    /\ \A i \in DOMAIN f : f[i] \in V
    /\ \A i, j \in DOMAIN f : i # j => f[i] # f[j]
    /\ \A i, j \in DOMAIN f :
          i < j => hazards[f[i]].created_at >= hazards[f[j]].created_at
    /\ \A h \in V : (\A i \in DOMAIN f : f[i] # h) =>
          \A i \in DOMAIN f : hazards[f[i]].created_at >= hazards[h].created_at
C28_Withheld ==
    {"status", "updated_at", "resolved_at", "verified_at", "audit_logs",
     "verification", "authority_id", "authority"}
C28_Step ==
    (driver' # driver /\ driver'.op = "verified")
    => /\ C28_Listing(C28_Verified, driver'.limit, driver'.result)
       /\ Len(driver'.body) = Len(driver'.result)
       /\ \A i \in DOMAIN driver'.body :
             DOMAIN driver'.body[i] \cap C28_Withheld = {}
       /\ UNCHANGED <<hazards, audit_logs, verifications, req>>
C28_NoWithheldField ==
    \A h \in HazardIds : DOMAIN HazardResponse(hazards[h]) \cap C28_Withheld = {}
C28_NonInterference == []C28_NoWithheldField /\ [][C28_Step]_vars
C28_Witness ==
    /\ driver.op = "verified" /\ driver.code = 200 /\ driver.result = << >>
    /\ Len(hazards) = 2
    /\ hazards[2].hazard_type \notin HazardType
    /\ req[SeqWorker].pc = "done" /\ req[SeqWorker].code = 400
    /\ req[SeqWorker].authority = 2

(* C29: a session token created for an authority and decoded less than 8    *)
(* hours after its creation yields claims with that authority's id; decoded *)
(* more than 8 hours after its creation it is refused with 401.  (Exactly 8 *)
(* hours after creation the answer depends on the installed PyJWT.)         *)
C29_WindowHours == 480 \div 60
C29_RoundTrip ==
    (session.token.kind = "jwt" /\ session.code # 0)
    => /\ (session.decoded_at - session.issued_at < C29_WindowHours
             => /\ session.code = 200
                /\ session.authority_id = session.issued_for
                /\ session.issued_for \in DOMAIN Authority)
       /\ (session.decoded_at - session.issued_at > C29_WindowHours
             => session.code = 401 /\ session.authority_id = None)
C29_Witness ==
    /\ session.token.kind = "jwt"
    /\ session.issued_for = 1
    /\ session.issued_at = 1
    /\ session.decoded_at = session.issued_at + C29_WindowHours - 1
    /\ session.code = 200
    /\ session.authority_id = 1
    /\ now > session.decoded_at

(* C30 (as claimed): a login with the email of an existing authority and    *)
(* that authority's password is answered 200 with a session token for that  *)
(* authority; any other login is answered 401 without a token.              *)
C30_LoginIssuesToken ==
    session.login # 0
    => IF \E a \in DOMAIN Authority :
             session.email = Email(a) /\ session.password = PasswordOf(a)
         THEN /\ session.login = 200
              /\ session.token.kind = "jwt"
              /\ session.email = Email(session.issued_for)
         ELSE session.login = 401 /\ session.token = NoToken

(* C31 (as claimed): of two redemptions of the same token row, both made    *)
(* before the row's expiry, one is answered 200 and the other 400 "Token    *)
(* has already been used".                                                  *)
C31_OneWinsOtherAlreadyUsed ==
    \A i, j \in DOMAIN redeem :
        (/\ i < j
         /\ redeem[i].matched # 0
         /\ redeem[j].matched = redeem[i].matched
         /\ redeem[j].at <= verifications[redeem[j].matched].token_expires_at)
        => \E a, b \in {i, j} :
              /\ a # b
              /\ redeem[a].code = 200
              /\ redeem[b].code = 400
              /\ redeem[b].detail = "Token has already been used"

(* C32: a verify, reject or resolve request for a hazard id that no row     *)
(* has is answered 404 at once; it stores no hazard, appends no audit entry *)
(* and changes no stored hazard.                                            *)
C32_Step ==
    \A w \in Workers :
        (/\ req'[w] # req[w]
         /\ req[w].pc # "loaded"
         /\ req'[w].hazard_id \notin HazardIds)
        => /\ req'[w].pc = "done"
           /\ req'[w].op \in Ops
           /\ req'[w].code = 404
           /\ UNCHANGED <<hazards, audit_logs>>
C32_UnknownHazardNotFound == [][C32_Step]_vars
C32_Witness ==
    /\ Len(hazards) = 1
    /\ \E w1, w2 \in Workers :
          /\ w1 # w2
          /\ req[w1].pc = "done" /\ req[w1].code = 404
          /\ req[w1].hazard_id \notin HazardIds
          /\ req[w1].op = "resolve"
          /\ req[w2].pc = "loaded" /\ req[w2].hazard_id \in HazardIds

(* C33: a hazard has no audit entry while PENDING_AUTHORITY, exactly one    *)
(* (VERIFY) while VERIFIED, and one (REJECT) or two (VERIFY, RESOLVE) once  *)
(* RESOLVED; the audit log grows only in a step in which a request is       *)
(* answered 200, by exactly one entry, for that request's hazard; a request *)
(* answered with an error leaves every hazard's count as it was.            *)
C33_Actions(h) == [i \in DOMAIN AuditOf(h) |-> AuditOf(h)[i].action]
C33_CountMatchesStatus ==
    \A h \in HazardIds :
        /\ hazards[h].status \in {"PENDING_AUTHORITY", "VERIFIED", "RESOLVED"}
        /\ hazards[h].status = "PENDING_AUTHORITY" => C33_Actions(h) = << >>
        /\ hazards[h].status = "VERIFIED" => C33_Actions(h) = <<"VERIFY">>
        /\ hazards[h].status = "RESOLVED" =>
              C33_Actions(h) \in {<<"REJECT">>, <<"VERIFY", "RESOLVE">>}
C33_Step ==
    /\ audit_logs' # audit_logs =>
          /\ Len(audit_logs') = Len(audit_logs) + 1
          /\ SubSeq(audit_logs', 1, Len(audit_logs)) = audit_logs
          /\ \E w \in Workers, op \in Ops :
                Commits(w, op, audit_logs'[Len(audit_logs')].hazard_id)
    /\ \A w \in Workers, op \in Ops :
          (Completes(w, op) /\ req'[w].code # 200) => audit_logs' = audit_logs
C35_HasVerifyEntry(h) ==
    \E i \in DOMAIN audit_logs :
        audit_logs[i].hazard_id = h /\ audit_logs[i].action = "VERIFY"
C37_SameButStatus(old, new) ==
    /\ new.id = old.id /\ new.hazard_type = old.hazard_type
    /\ new.latitude = old.latitude /\ new.longitude = old.longitude
    /\ new.observed_at = old.observed_at /\ new.created_at = old.created_at
C37_Step ==
    /\ \A w \in Workers :
          req'[w] # req[w] =>
             /\ DOMAIN hazards' = DOMAIN hazards
             /\ \A g \in HazardIds :
                   IF g = req'[w].hazard_id
                     THEN C37_SameButStatus(hazards[g], hazards'[g])
                     ELSE hazards'[g] = hazards[g]
             /\ Len(audit_logs') >= Len(audit_logs)
             /\ \A i \in DOMAIN audit_logs' :
                   IF i \in DOMAIN audit_logs
                     THEN audit_logs'[i] = audit_logs[i]
                     ELSE audit_logs'[i].hazard_id = req'[w].hazard_id
             /\ UNCHANGED verifications
    /\ (driver' # driver /\ driver'.op = "report") =>
          /\ \A g \in HazardIds :
                g \in DOMAIN hazards' /\ hazards'[g] = hazards[g]
          /\ UNCHANGED <<audit_logs, verifications>>
    /\ redeem' # redeem => UNCHANGED <<hazards, audit_logs>>
C37_Frame == [][C37_Step]_vars
C37_Witness ==
    /\ Len(hazards) = 2
    /\ driver.op = "report" /\ driver.code = 201 /\ driver.hazard_id = 2
    /\ req[SeqWorker].pc = "done" /\ req[SeqWorker].op = "verify"
    /\ req[SeqWorker].hazard_id = 2 /\ req[SeqWorker].code = 400
    /\ \E i \in DOMAIN redeem : redeem[i].matched # 0 /\ redeem[i].code = 500
    /\ hazards[1].created_at < hazards[2].created_at

(* C40: the statistics result has total = pending_authority + verified +    *)
(* resolved, and the three counters describe one state of the store: each   *)
(* count query returns the number of hazards in its status at the moment it *)
(* runs, and the result as a whole equals the per-status numbers of the     *)
(* hazards 1..total, which are all the hazards of the store unless a report *)
(* was committed after the first count; this also with requests of          *)
(* authorities in flight between the counts.                                *)
C40_InStatus(ids, status) ==
    Cardinality({h \in ids : hazards'[h].status = status})
C40_Step ==
    /\ (portal'.op = "stats" /\ portal'.code = 0 /\ portal.op = "stats"
          /\ portal.code = 0 /\ Len(portal'.body) = Len(portal.body) + 1) =>
          portal'.body[Len(portal'.body)] =
             C40_InStatus(DOMAIN hazards', StatsOrder[Len(portal'.body)])
    /\ (portal'.op = "stats" /\ portal'.code = 200 /\ portal.code = 0) =>
          LET r == portal'.body
          IN /\ r.total = r.pending_authority + r.verified + r.resolved
             /\ r.total <= Len(hazards')
             /\ r.pending_authority = C40_InStatus(1..r.total, "PENDING_AUTHORITY")
             /\ r.verified = C40_InStatus(1..r.total, "VERIFIED")
             /\ r.resolved = C40_InStatus(1..r.total, "RESOLVED")
             /\ portal.body[1] = Len(hazards') =>
                   /\ r.total = Len(hazards')
                   /\ r.pending_authority + r.verified + r.resolved
                         = Cardinality(DOMAIN hazards')
====
